---- MODULE Spec2Model ----
(***************************************************************************)
(* Authentication backend of src/main.py: register, login and GET /auth/me *)
(* over a document store, with bcrypt password hashes and HS256 bearer     *)
(* tokens.  Requests are handled concurrently; register is split at its    *)
(* store calls, login and me touch the store by reads only and are one     *)
(* step each.                                                              *)
(***************************************************************************)
EXTENDS Integers, Sequences, FiniteSets, TLC

\* ------------------------------------------------------------------ bounds
\* Number of register requests that may be in flight at the same time.
NumHandlers == 2
\* Largest number of user records the store is allowed to grow to.
MaxUsers == 2
\* A token lifetime (in clock ticks) short enough to expire within a run.
ShortTtl == 1
\* Last instant of the model's clock.
MaxNow == ShortTtl + 1
\* Stand-in for datetime.max: the largest instant datetime arithmetic represents.
DatetimeMax == MaxNow + ShortTtl
\* A configured lifetime so large that now + lifetime is out of datetime's range.
HugeTtl == DatetimeMax + 1

\* ------------------------------------------------------------------ inputs
Emails == {"a@x.com", "b@x.com"}
NoName == "None"
Names == {NoName}
\* A password is its first 72 bytes and the bytes after them (bcrypt's limit).
Pw(first, rest) == [first72 |-> first, rest |-> rest]
EmptyPassword == Pw("", "")
Passwords == {EmptyPassword, Pw("pw1", ""), Pw("L72", ""), Pw("L72", "x")}
Salts == {"s1"}
\* A string that EmailStr does not accept.
BadEmail == "not-an-email"
RegisterBodies == [email : Emails \cup {BadEmail}, password : Passwords, name : Names]
LoginBodies == [email : Emails, password : Passwords]

\* ------------------------------------------------------------ configuration
ALGORITHM == "HS256"
SECRET_KEY == "AUTH_SECRET"
AttackerKey == "not-the-secret"

VARIABLES
    db,                          \* TRUE iff database.db is not None
    ACCESS_TOKEN_EXPIRE_MINUTES, \* configured token lifetime
    now,                         \* the clock
    users,                       \* the authuser collection, in insertion order
    returned,                    \* tokens handed out by register and login
    registered,                  \* history: the bodies of the registers that succeeded
    reg,                         \* the register requests in flight
    last                         \* the most recent response, with its request

vars == <<db, ACCESS_TOKEN_EXPIRE_MINUTES, now, users, returned, registered, reg, last>>

\* --------------------------------------------------------- credential hasher
\* bcrypt digests the first 72 bytes of the password under the salt.
BcryptDigest(salt, password) == <<salt, password.first72>>

hash_password(password, salt) ==
    [scheme |-> "bcrypt", salt |-> salt, digest |-> BcryptDigest(salt, password)]

\* Stored values that are no bcrypt hash: the empty string and other text.
EmptyHash == [text |-> ""]
MalformedHash == [text |-> "not-a-hash"]

\* pwd_context identifies the scheme of a hash string.
Identified(hashed) == "digest" \in DOMAIN hashed
UnknownHashError == [ok |-> FALSE]

\* pwd_context.verify: raises when no scheme of the context identifies the
\* stored string, else compares the digests.
verify_password(plain, hashed) ==
    IF ~Identified(hashed) THEN UnknownHashError
    ELSE [ok |-> TRUE, value |-> hashed.digest = BcryptDigest(hashed.salt, plain)]

\* --------------------------------------------------------------- token codec
\* HMAC of the signing input (header and claims) under a key.
Hmac(key, alg, claims) == [key |-> key, alg |-> alg, over |-> claims]

\* jwt.encode: header.claims.signature; slack is the two bits of the last
\* base64url character of the signature that carry no data (0 as encoded).
jwt_encode(claims, key, alg) ==
    [alg |-> alg, claims |-> claims, mac |-> Hmac(key, alg, claims), slack |-> 0]

Malformed == [garbage |-> TRUE]
JWTError == [ok |-> FALSE]

\* jwt.decode that does not look at exp.
jwt_decode_noexp(token, key, alg, t) ==
    IF "garbage" \in DOMAIN token THEN JWTError
    ELSE IF token.alg # alg THEN JWTError
    ELSE IF token.mac # Hmac(key, token.alg, token.claims) THEN JWTError
    ELSE [ok |-> TRUE, payload |-> token.claims]

\* jwt.decode that does not verify the signature.
jwt_decode_nosig(token, key, alg, t) ==
    IF "garbage" \in DOMAIN token THEN JWTError
    ELSE IF "exp" \in DOMAIN token.claims /\ token.claims.exp < t THEN JWTError
    ELSE [ok |-> TRUE, payload |-> token.claims]

\* jwt.decode(token, key, algorithms=[alg]) at instant t: the payload, or
\* JWTError for a malformed token, another algorithm, a signature that is not
\* the key's HMAC of the signing input, or exp < t.  Base64 decoding of the
\* signature segment discards the slack bits.
jwt_decode(token, key, alg, t) ==
    IF "garbage" \in DOMAIN token THEN JWTError
    ELSE IF token.alg # alg THEN JWTError
    ELSE IF token.mac # Hmac(key, token.alg, token.claims) THEN JWTError
    ELSE IF "exp" \in DOMAIN token.claims /\ token.claims.exp < t THEN JWTError
    ELSE [ok |-> TRUE, payload |-> token.claims]

\* expires_delta is <<>> for None and <<d>> for a timedelta d.
Falsy(delta) == delta = <<>> \/ delta[1] = 0

\* create_access_token at instant t: the token, and the caller's dict as the
\* call leaves it (to_encode is a copy).  OverflowError when now + ttl is out of
\* datetime's range.
create_access_token(data, expires_delta, minutes, t) ==
    LET ttl == IF Falsy(expires_delta) THEN minutes ELSE expires_delta[1]
        expire == t + ttl
        to_encode == [k \in DOMAIN data \cup {"exp"} |->
                        IF k = "exp" THEN expire ELSE data[k]]
    IN  IF expire > DatetimeMax
        THEN [ok |-> FALSE]
        ELSE [ok |-> TRUE,
              token |-> jwt_encode(to_encode, SECRET_KEY, ALGORITHM),
              data |-> data]

\* -------------------------------------------------------------- store adapter
\* col.find_one({"email": e}): the first matching document, <<>> for None.
find_one_email(col, e) ==
    LET hits == {i \in 1..Len(col) : col[i].email = e}
    IN  IF hits = {} THEN <<>>
        ELSE <<col[CHOOSE i \in hits : \A j \in hits : i <= j]>>

\* An upsert by email: a stored document with the same email is replaced.
insert_one_upsert(col, doc) ==
    LET hits == {i \in 1..Len(col) : col[i].email = doc.email}
        stored(n) == [k \in DOMAIN doc \cup {"_id"} |->
                        IF k = "_id" THEN n ELSE doc[k]]
    IN  IF hits = {} THEN Append(col, stored(Len(col) + 1))
        ELSE [i \in 1..Len(col) |-> IF i \in hits THEN stored(i) ELSE col[i]]

\* col.insert_one(doc): the store assigns _id and appends the document.
insert_one(col, doc) ==
    Append(col, [k \in DOMAIN doc \cup {"_id"} |->
                    IF k = "_id" THEN Len(col) + 1 ELSE doc[k]])

\* ------------------------------------------------------------------- models
\* The document handed out as it is stored.
serialize_user_whole(doc) ==
    [k \in (DOMAIN doc \ {"_id"}) \cup {"id"} |->
        IF k = "id" THEN ToString(doc._id) ELSE doc[k]]

serialize_user(doc) ==
    [id |-> ToString(doc._id), email |-> doc.email, name |-> doc.name]

TokenOut(token, user) ==
    [access_token |-> token, token_type |-> "bearer", user |-> user]

NoBody == [none |-> TRUE]

HTTPException(status, detail) == [status |-> status, detail |-> detail, body |-> NoBody]
Ok(body) == [status |-> 200, detail |-> "OK", body |-> body]
InternalServerError == HTTPException(500, "Internal Server Error")
DatabaseNotAvailable == HTTPException(500, "Database not available")


\* ------------------------------------------------------- identity resolver
NoHeader == [none |-> TRUE]
Schemes == {"Bearer", "BEARER", "Basic"}
Lower(s) == IF s \in {"Bearer", "BEARER"} THEN "bearer" ELSE "basic"
\* The header "<scheme> <credentials>".
Header(scheme, token) == [scheme |-> scheme, token |-> token]

\* The scheme compared without lower().
IsBearer_casesensitive(authorization) ==
    authorization # NoHeader /\ authorization.scheme = "bearer"

\* Any scheme accepted.
IsBearer_anyscheme(authorization) ==
    authorization # NoHeader

\* Line 89: the header is there and starts with "bearer ", in any case.
IsBearer(authorization) ==
    authorization # NoHeader /\ Lower(authorization.scheme) = "bearer"

\* payload.get("sub"): "" stands for None.
GetSub(payload) == IF "sub" \in DOMAIN payload THEN payload.sub ELSE ""

\* get_current_user with users_col() called on entry.
get_current_user_storefirst(authorization, col, dbUp, t) ==
    IF ~dbUp THEN [resp |-> DatabaseNotAvailable, reads |-> <<>>]
    ELSE IF ~IsBearer(authorization)
    THEN [resp |-> HTTPException(401, "Not authenticated"), reads |-> <<>>]
    ELSE LET decoded == jwt_decode(authorization.token, SECRET_KEY, ALGORITHM, t)
             sub == GetSub(decoded.payload)
             user_doc == find_one_email(col, sub)
         IN  IF ~decoded.ok \/ sub = ""
             THEN [resp |-> HTTPException(401, "Invalid token"), reads |-> <<>>]
             ELSE IF user_doc = <<>>
             THEN [resp |-> HTTPException(401, "User not found"),
                   reads |-> <<"_id", "email">>]
             ELSE [resp |-> Ok(serialize_user(user_doc[1])),
                   reads |-> <<"_id", "email">>]

\* get_current_user: the response, and the store queries made on the way.
get_current_user(authorization, col, dbUp, t) ==
    IF ~IsBearer(authorization)
    THEN [resp |-> HTTPException(401, "Not authenticated"), reads |-> <<>>]
    ELSE LET decoded == jwt_decode(authorization.token, SECRET_KEY, ALGORITHM, t)
         IN  IF ~decoded.ok
             THEN [resp |-> HTTPException(401, "Invalid token"), reads |-> <<>>]
             ELSE LET sub == GetSub(decoded.payload)
                  IN  IF sub = ""
                      THEN [resp |-> HTTPException(401, "Invalid token"), reads |-> <<>>]
                      ELSE IF ~dbUp
                      THEN [resp |-> DatabaseNotAvailable, reads |-> <<>>]
                      ELSE LET user_doc == find_one_email(col, sub)
                               reads == <<"_id", "email">>
                           IN  IF user_doc = <<>>
                               THEN [resp |-> HTTPException(401, "User not found"),
                                     reads |-> reads]
                               ELSE [resp |-> Ok(serialize_user(user_doc[1])),
                                     reads |-> reads]

\* ------------------------------------------------------------ auth service
\* user_doc.get("password_hash", "").
GetHash(doc) ==
    IF "password_hash" \in DOMAIN doc THEN doc.password_hash ELSE EmptyHash

\* login: the whole handler, at instant t.
login(body, col, dbUp, minutes, t) ==
    IF ~dbUp THEN DatabaseNotAvailable
    ELSE LET user_doc == find_one_email(col, body.email)
             verified == verify_password(body.password, GetHash(user_doc[1]))
         IN  IF user_doc = <<>>
             THEN HTTPException(401, "Invalid email or password")
             ELSE IF ~verified.ok THEN InternalServerError
             ELSE IF ~verified.value
             THEN HTTPException(401, "Invalid email or password")
             ELSE LET user == serialize_user(user_doc[1])
                      made == create_access_token([sub |-> user.email], <<>>, minutes, t)
                  IN  IF ~made.ok THEN InternalServerError
                      ELSE Ok(TokenOut(made.token, user))

\* RegisterBody, lines 51-54: email is an EmailStr, password any str, name an
\* optional str.  FastAPI answers 422 before the handler when this fails.
RegisterBody(body) == body.email \in Emails
Unprocessable == HTTPException(422, "Unprocessable Entity")

\* register that does not go through users_col().
register_head_nodbcheck(body, col, dbUp) ==
    IF find_one_email(col, body.email) # <<>>
    THEN <<HTTPException(409, "Email already registered")>>
    ELSE <<>>

\* register without the lookup of the email.
register_head_nolookup(body, col, dbUp) ==
    IF ~dbUp THEN <<DatabaseNotAvailable>> ELSE <<>>

\* register, lines 162-165: <<r>> when the handler answers r at once, <<>> when
\* it goes on to insert.
register_head(body, col, dbUp) ==
    IF ~dbUp THEN <<DatabaseNotAvailable>>
    ELSE IF find_one_email(col, body.email) # <<>>
    THEN <<HTTPException(409, "Email already registered")>>
    ELSE <<>>

\* The document register builds (lines 166-173), its two readings of the clock
\* being created and updated.
NewDoc(body, salt, created, updated) ==
    [email |-> body.email,
     password_hash |-> hash_password(body.password, salt),
     name |-> body.name,
     created_at |-> created,
     updated_at |-> updated,
     is_active |-> TRUE]

\* The tail of register after insert_one: serialize the user, issue the token.
register_tail(doc, minutes, t) ==
    LET user == serialize_user(doc)
        made == create_access_token([sub |-> user.email], <<>>, minutes, t)
    IN  IF ~made.ok THEN InternalServerError
        ELSE Ok(TokenOut(made.token, user))

\* ---------------------------------------------------------------- the state
RegIds == 1..NumHandlers
Idle == [pc |-> "idle", body |-> NoBody, present |-> FALSE, before |-> 0]
ExpireMinutesChoices == {ShortTtl, HugeTtl}

NoAux == [none |-> TRUE]
Last(op, req, resp, aux) ==
    [op |-> op, req |-> req, resp |-> resp, aux |-> aux]

NoResponse == [op |-> "none"]

Init ==
    /\ db \in BOOLEAN
    /\ ACCESS_TOKEN_EXPIRE_MINUTES \in ExpireMinutesChoices
    /\ now = 0
    /\ users = <<>>
    /\ returned = {}
    /\ registered = {}
    /\ reg = [r \in RegIds |-> Idle]
    /\ last = NoResponse

\* Records the store may hold that register did not write: an account whose
\* password_hash is missing, empty or no hash at all.
StoredDoc == [_id |-> 1, email |-> "a@x.com", name |-> NoName,
              created_at |-> 0, updated_at |-> 0, is_active |-> TRUE]
StoredDocs ==
    {StoredDoc,
     [k \in DOMAIN StoredDoc \cup {"password_hash"} |->
        IF k = "password_hash" THEN EmptyHash ELSE StoredDoc[k]],
     [k \in DOMAIN StoredDoc \cup {"password_hash"} |->
        IF k = "password_hash" THEN MalformedHash ELSE StoredDoc[k]]}

\* The service started on a store that holds one such record.
InitStored ==
    /\ db = TRUE
    /\ ACCESS_TOKEN_EXPIRE_MINUTES = ShortTtl
    /\ now = 0
    /\ users \in {<<doc>> : doc \in StoredDocs}
    /\ returned = {}
    /\ registered = {}
    /\ reg = [r \in RegIds |-> Idle]
    /\ last = NoResponse

EmailPresent(col, e) == \E i \in 1..Len(col) : col[i].email = e
Inserting == {r \in RegIds : reg[r].pc = "insert"}

\* Tokens signed with the server's secret that this run did not hand out: one
\* from an earlier run of the service, one whose claims carry no sub.
OtherTokens ==
    {jwt_encode([sub |-> "a@x.com", exp |-> DatetimeMax], SECRET_KEY, ALGORITHM),
     jwt_encode([exp |-> DatetimeMax], SECRET_KEY, ALGORITHM)}

Issued(handed) == handed \cup OtherTokens

\* What a client can put after "Bearer ": an issued token, or one made from it
\* without the secret.
Altered(t) ==
    {[t EXCEPT !.slack = 1],
     [t EXCEPT !.claims.exp = DatetimeMax + 1],
     [t EXCEPT !.alg = "none"],
     jwt_encode(t.claims, AttackerKey, ALGORITHM)}
    \cup (IF "sub" \in DOMAIN t.claims
          THEN {[t EXCEPT !.claims.sub = e] : e \in Emails \ {t.claims.sub}}
          ELSE {})

Presentable(handed) ==
    Issued(handed) \cup UNION {Altered(t) : t \in Issued(handed)} \cup {Malformed}

\* The headers a client sends: none, "Bearer" with anything presentable, and an
\* issued token under the other spellings and schemes.
Headers(handed) ==
    {NoHeader}
    \cup {Header("Bearer", t) : t \in Presentable(handed)}
    \cup {Header(s, t) : s \in Schemes, t \in Issued(handed)}

\* ------------------------------------------------------------------ actions
\* The clock advances.
Tick ==
    /\ last.op = "none"
    /\ now < MaxNow
    /\ now' = now + 1
    /\ UNCHANGED <<db, ACCESS_TOKEN_EXPIRE_MINUTES, users, returned, registered, reg, last>>

\* register, lines 162-165: users_col() and the lookup by email.
RegisterFind(r, body) ==
    /\ reg[r].pc = "idle"
    /\ \A q \in RegIds : q < r => reg[q].pc # "idle"
    /\ last.op = "none"
    /\ LET head == register_head(body, users, db)
           aux == [present |-> EmailPresent(users, body.email),
                   before |-> Len(users), after |-> Len(users), wrote |-> FALSE]
       IN  IF ~RegisterBody(body)
           THEN /\ last' = Last("register", body, Unprocessable, aux)
                /\ reg' = reg
           ELSE IF head # <<>>
           THEN /\ last' = Last("register", body, head[1], aux)
                /\ reg' = reg
           ELSE /\ Len(users) + Cardinality(Inserting) < MaxUsers
                /\ reg' = [reg EXCEPT ![r] = [pc |-> "insert", body |-> body,
                                              present |-> aux.present,
                                              before |-> aux.before]]
                /\ last' = last
    /\ UNCHANGED <<db, ACCESS_TOKEN_EXPIRE_MINUTES, now, users, returned, registered>>

\* register, lines 166-177: build the document, insert it, serialize the user,
\* issue the token, answer.  The clock may move between the two calls of
\* datetime.now.
RegisterInsert(r) ==
    /\ reg[r].pc = "insert"
    /\ last.op = "none"
    /\ \E salt \in Salts, d \in {0, 1} :
         /\ now + d <= MaxNow
         /\ now' = now + d
         /\ users' = insert_one(users, NewDoc(reg[r].body, salt, now, now + d))
    /\ LET resp == register_tail(users'[Len(users')], ACCESS_TOKEN_EXPIRE_MINUTES, now')
           aux == [present |-> reg[r].present, before |-> reg[r].before,
                   after |-> Len(users'), wrote |-> TRUE]
       IN  /\ last' = Last("register", reg[r].body, resp, aux)
           /\ returned' = IF resp.status = 200
                          THEN returned \cup {resp.body.access_token} ELSE returned
           /\ registered' = IF resp.status = 200
                            THEN registered \cup {[email |-> reg[r].body.email,
                                                   password |-> reg[r].body.password]}
                            ELSE registered
    /\ reg' = [reg EXCEPT ![r] = Idle]
    /\ UNCHANGED <<db, ACCESS_TOKEN_EXPIRE_MINUTES>>

\* POST /auth/login.
Login(body) ==
    /\ last.op = "none"
    /\ LET resp == login(body, users, db, ACCESS_TOKEN_EXPIRE_MINUTES, now)
           aux == [exists |-> EmailPresent(users, body.email),
                   known |-> {p \in Passwords :
                                [email |-> body.email, password |-> p] \in registered}]
       IN  /\ last' = Last("login", body, resp, aux)
           /\ returned' = IF resp.status = 200
                          THEN returned \cup {resp.body.access_token} ELSE returned
    /\ UNCHANGED <<db, ACCESS_TOKEN_EXPIRE_MINUTES, now, users, registered, reg>>

\* GET /auth/me.
Me(authorization) ==
    /\ last.op = "none"
    /\ LET got == get_current_user(authorization, users, db, now)
           aux == [at |-> now, handed |-> returned, reads |-> got.reads,
                   emails |-> {users[i].email : i \in 1..Len(users)}]
       IN  last' = Last("me", authorization, got.resp, aux)
    /\ UNCHANGED <<db, ACCESS_TOKEN_EXPIRE_MINUTES, now, users, returned, registered, reg>>

\* The response reaches the client.
Deliver ==
    /\ last.op # "none"
    /\ last' = NoResponse
    /\ UNCHANGED <<db, ACCESS_TOKEN_EXPIRE_MINUTES, now, users, returned, registered, reg>>

Next ==
    \/ Tick
    \/ Deliver
    \/ \E r \in RegIds, body \in RegisterBodies : RegisterFind(r, body)
    \/ \E r \in RegIds : RegisterInsert(r)
    \/ \E body \in LoginBodies : Login(body)
    \/ \E authorization \in Headers(returned) : Me(authorization)

Spec == Init /\ [][Next]_vars

\* create_access_token on its own: the claims and lifetimes it is called with.
TokenData == [sub : Emails] \cup [sub : Emails, role : {"admin"}]
TokenDeltas == {<<>>} \cup {<<d>> : d \in 0..DatetimeMax}

InitToken ==
    /\ db = TRUE
    /\ ACCESS_TOKEN_EXPIRE_MINUTES \in ExpireMinutesChoices
    /\ now = 0
    /\ users = <<>>
    /\ returned = {}
    /\ registered = {}
    /\ reg = [r \in RegIds |-> Idle]
    /\ last = NoResponse

CreateToken(data, expires_delta) ==
    /\ last.op = "none"
    /\ last' = Last("create_access_token",
                    [data |-> data, expires_delta |-> expires_delta],
                    create_access_token(data, expires_delta,
                                        ACCESS_TOKEN_EXPIRE_MINUTES, now),
                    [at |-> now, minutes |-> ACCESS_TOKEN_EXPIRE_MINUTES])
    /\ UNCHANGED <<db, ACCESS_TOKEN_EXPIRE_MINUTES, now, users, returned, registered, reg>>

NextToken ==
    \/ Tick
    \/ Deliver
    \/ \E data \in TokenData, expires_delta \in TokenDeltas :
          CreateToken(data, expires_delta)

SpecToken == InitToken /\ [][NextToken]_vars
SpecStored == InitStored /\ [][Next]_vars

\* ------------------------------------------------------------------ claims
IsMe == last.op = "me"
IsRegister == last.op = "register"
IsLogin == last.op = "login"
\* The request of the last response carried "<scheme> <token>".
HasToken == IsMe /\ last.req # NoHeader
WellFormed == HasToken /\ "garbage" \notin DOMAIN last.req.token

\* C1: a register whose email is in the store when it looks it up is answered
\* 409 and inserts nothing: the store has as many records after as before.
C1_DuplicateRegisterConflicts ==
    (IsRegister /\ last.aux.present) =>
        /\ last.resp.status = 409
        /\ ~last.aux.wrote
        /\ last.aux.after = last.aux.before

C1_Witness ==
    /\ IsRegister /\ last.aux.present /\ last.resp.status = 409
    /\ [email |-> last.req.email, password |-> last.req.password] \in registered

\* C2: the store never holds two records with the same email.
C2_OneRecordPerEmail ==
    \A i, j \in 1..Len(users) : users[i].email = users[j].email => i = j

\* C3: a token returned by register or login carries the user's email as sub,
\* and presented as "Bearer <token>" before its exp, with the store available,
\* it is answered 200 with the user whose email is sub, whatever happened since.
C3_TokenGoodUntilExp ==
    /\ ((IsRegister \/ IsLogin) /\ last.resp.status = 200) =>
          /\ last.resp.body.access_token.claims.sub = last.resp.body.user.email
          /\ last.resp.body.user.email = last.req.email
    /\ (/\ HasToken
        /\ last.req.scheme = "Bearer"
        /\ last.req.token \in last.aux.handed
        /\ last.aux.at < last.req.token.claims.exp
        /\ db) =>
          /\ last.resp.status = 200
          /\ last.resp.body.email = last.req.token.claims.sub

\* A returned token accepted at an instant after the one it was issued at.
C3_Witness ==
    /\ HasToken /\ last.req.scheme = "Bearer"
    /\ last.req.token \in last.aux.handed
    /\ last.req.token.claims.exp = now + 1
    /\ now > 0
    /\ Len(users) = MaxUsers
    /\ last.resp.status = 200

\* C4: a token issued under the secret and presented after its exp is answered
\* 401, also when the user it names is in the store.
C4_ExpiredTokenRejected ==
    (/\ WellFormed
     /\ IsBearer(last.req)
     /\ last.req.token \in Issued(last.aux.handed)
     /\ last.req.token.claims.exp < last.aux.at) =>
        last.resp.status = 401

C4_Witness ==
    /\ WellFormed /\ IsBearer(last.req)
    /\ last.req.token \in last.aux.handed
    /\ last.req.token.claims.exp < last.aux.at
    /\ last.req.token.claims.sub \in last.aux.emails
    /\ last.resp.status = 401

\* The token of the last request has the header, claims and signature of t.
SameSigned(t) ==
    /\ last.req.token.alg = t.alg
    /\ last.req.token.claims = t.claims
    /\ last.req.token.mac = t.mac

\* C5 as stated: only a token exactly as issued is accepted, so every
\* alteration of an issued token is answered 401.
C5_OnlyIssuedTextAccepted ==
    (IsMe /\ last.resp.status = 200) =>
        last.req.token \in Issued(last.aux.handed)

\* C5: an accepted token has the header, claims and signature of a token issued
\* under the secret; a token whose signature is not the secret's HMAC of its
\* header and claims is answered 401.
C5_OnlySignedClaimsAccepted ==
    /\ (IsMe /\ last.resp.status = 200) =>
          \E t \in Issued(last.aux.handed) : SameSigned(t)
    /\ (/\ HasToken
        /\ IsBearer(last.req)
        /\ \/ ~WellFormed
           \/ last.req.token.mac #
                Hmac(SECRET_KEY, last.req.token.alg, last.req.token.claims)) =>
          last.resp.status = 401

\* The re-encoding of a returned token is accepted.
C5_Witness ==
    /\ IsMe /\ last.resp.status = 200
    /\ last.req.token \notin Issued(last.aux.handed)
    /\ \E t \in last.aux.handed : SameSigned(t)

\* The claims jwt.decode verified for the last request, when it verified any.
Verified ==
    /\ WellFormed
    /\ jwt_decode(last.req.token, SECRET_KEY, ALGORITHM, last.aux.at).ok
NoSub == Verified /\ "sub" \notin DOMAIN last.req.token.claims
NoSuchUser ==
    /\ Verified
    /\ "sub" \in DOMAIN last.req.token.claims
    /\ last.req.token.claims.sub \notin last.aux.emails

\* C6 as stated: no header, another scheme, verified claims without sub, or no
\* user record with email = sub: each is answered 401, and a user is returned
\* only when none of them holds.
C6_UnauthenticatedCases ==
    IsMe =>
        LET refused == \/ last.req = NoHeader
                       \/ Lower(last.req.scheme) # "bearer"
                       \/ NoSub
                       \/ NoSuchUser
        IN  /\ refused => last.resp.status = 401
            /\ last.resp.status = 200 => ~refused

\* C6: the same, the lookup of the user being made only when the store is
\* available (db is not None).
C6_UnauthenticatedCasesStoreUp ==
    IsMe =>
        LET refused == \/ last.req = NoHeader
                       \/ Lower(last.req.scheme) # "bearer"
                       \/ NoSub
                       \/ (db /\ NoSuchUser)
        IN  /\ refused => last.resp.status = 401
            /\ last.resp.status = 200 => ~refused

\* A verified token whose sub is the email of no record, the store holding
\* other records.
C6_Witness ==
    /\ IsMe /\ db /\ NoSuchUser
    /\ last.aux.emails # {}
    /\ last.resp.status = 401

\* The email of the last login is in no record / is registered, the password
\* being none of those it was registered with.
UnknownEmail == IsLogin /\ ~last.aux.exists
WrongPassword ==
    IsLogin /\ last.aux.known # {} /\ last.req.password \notin last.aux.known

\* C7: with the store available, a login with a registered email and a wrong
\* password and a login with an unknown email get the same answer, 401 with
\* "Invalid email or password", and no token.
C7_FailedLoginsAlike ==
    (db /\ (UnknownEmail \/ WrongPassword)) =>
        last.resp = HTTPException(401, "Invalid email or password")

\* C8: after register(e, p) succeeded, login(e, q) is answered 200 with a token
\* of sub e exactly when q is a password e was registered with.
C8_LoginIffRegisteredPassword ==
    (IsLogin /\ last.aux.known # {}) =>
        ((/\ last.resp.status = 200
          /\ last.resp.body.access_token.claims.sub = last.req.email)
         <=> last.req.password \in last.aux.known)

\* C9: the user part of every response is exactly id, email and name; a
\* response that is an error has no user part.
C9_OnlyPublicFields ==
    /\ ((IsRegister \/ IsLogin) /\ last.resp.status = 200) =>
          /\ DOMAIN last.resp.body = {"access_token", "token_type", "user"}
          /\ DOMAIN last.resp.body.user = {"id", "email", "name"}
    /\ (IsMe /\ last.resp.status = 200) =>
          DOMAIN last.resp.body = {"id", "email", "name"}
    /\ ((IsRegister \/ IsLogin \/ IsMe) /\ last.resp.status # 200) =>
          last.resp.body = NoBody

\* A login answers with the user of a stored record.
C9_Witness ==
    /\ IsLogin /\ last.resp.status = 200
    /\ \E i \in 1..Len(users) :
         /\ users[i].email = last.resp.body.user.email
         /\ "password_hash" \in DOMAIN users[i]

\* C10: a register that wrote a record is answered 200 with a token.
C10_NoPartialFailure ==
    (IsRegister /\ last.aux.wrote) =>
        /\ last.resp.status = 200
        /\ "access_token" \in DOMAIN last.resp.body

\* C11: a register with an empty password is refused: it writes no record and
\* returns no token.
C11_EmptyPasswordRejected ==
    (IsRegister /\ last.req.password = EmptyPassword) =>
        /\ last.resp.status # 200
        /\ ~last.aux.wrote
        /\ last.resp.body = NoBody

\* C12: a stored record is never modified or removed, and a login or a
\* GET /auth/me, answered with success or not, leaves the store as it was.
C12_RecordsKept ==
    [][/\ Len(users') >= Len(users)
       /\ \A i \in 1..Len(users) : users'[i] = users[i]
       /\ (last.op = "none" /\ last'.op \in {"login", "me"}) => users' = users]_vars

\* A refused login for a stored email, on a full store.
C12_Witness ==
    /\ IsLogin /\ Len(users) = MaxUsers
    /\ last.resp.status = 401
    /\ users[1].email = last.req.email

\* C13: a GET /auth/me with no header, another scheme, or a token that does
\* not verify (malformed, altered, expired) is answered 401 without any store
\* access, whether the store is available or not.
C13_RejectedBeforeStore ==
    (IsMe /\ (~IsBearer(last.req) \/ ~Verified)) =>
        /\ last.resp.status = 401
        /\ last.aux.reads = <<>>

\* An altered token refused while db is None.
C13_Witness ==
    /\ ~db /\ HasToken /\ IsBearer(last.req)
    /\ WellFormed /\ ~Verified
    /\ last.resp.status = 401

\* C14: while db is None, a register (of a body that parses), a login and a
\* GET /auth/me with a bearer token that verifies and names a sub are each answered 500
\* "Database not available" at once: no store access is tried, no request
\* stays in flight, no token is handed out and the store stays empty.
C14_StoreUnavailable ==
    ~db =>
        /\ (IsRegister /\ RegisterBody(last.req)) =>
              (last.resp = DatabaseNotAvailable /\ ~last.aux.wrote)
        /\ IsLogin => last.resp = DatabaseNotAvailable
        /\ (IsMe /\ IsBearer(last.req) /\ Verified /\ ~NoSub) =>
              (last.resp = DatabaseNotAvailable /\ last.aux.reads = <<>>)
        /\ \A r \in RegIds : reg[r].pc = "idle"
        /\ users = <<>>
        /\ returned = {}

\* A verified token with a sub presented while db is None.
C14_Witness ==
    /\ ~db /\ IsMe /\ IsBearer(last.req) /\ Verified /\ ~NoSub
    /\ last.resp.status = 500

\* The record the last login found has a password_hash that is no hash.
FoundBadHash ==
    /\ IsLogin
    /\ find_one_email(users, last.req.email) # <<>>
    /\ ~Identified(GetHash(find_one_email(users, last.req.email)[1]))

\* C15: a login that finds a record whose password_hash is missing, empty or
\* malformed is answered 401 "Invalid email or password", as for a wrong
\* password.
C15_BadHashRefused ==
    FoundBadHash => last.resp = HTTPException(401, "Invalid email or password")

IsCreateToken == last.op = "create_access_token"

\* C16: create_access_token(claims, ttl) sets exp = now + ttl for every ttl it
\* is given, zero included, and exp = now + the configured minutes when it is
\* given none; the token keeps the sub, and the caller's claims are unchanged.
C16_ExpIsNowPlusTtl ==
    IsCreateToken =>
        LET given == last.req.expires_delta
            ttl == IF given = <<>> THEN last.aux.minutes ELSE given[1]
        IN  /\ last.resp.ok <=> last.aux.at + ttl <= DatetimeMax
            /\ last.resp.ok =>
                  /\ last.resp.token.claims.exp = last.aux.at + ttl
                  /\ last.resp.token.claims.sub = last.req.data.sub
                  /\ last.resp.data = last.req.data

\* C17: every record of the store has created_at equal to updated_at and
\* is_active true.
C17_SingleInstant ==
    \A i \in 1..Len(users) :
        /\ users[i].created_at = users[i].updated_at
        /\ users[i].is_active = TRUE

\* C18: a GET /auth/me reads the store at most once, by email = sub.
C18_SingleLookup ==
    IsMe => last.aux.reads \in {<<>>, <<"email">>}

\* The response register gave for the i-th record of the store: its token is
\* made when the record has just been written, at the record's updated_at.
RegisterResponseOf(i) ==
    register_tail(users[i], ACCESS_TOKEN_EXPIRE_MINUTES, users[i].updated_at)

\* C19: a GET /auth/me answered 200 for a token that a register returned gives
\* the id, email and name of that register's response.
C19_StableIdentity ==
    (HasToken /\ last.resp.status = 200) =>
        \A i \in 1..Len(users) :
            (/\ RegisterResponseOf(i).status = 200
             /\ RegisterResponseOf(i).body.access_token = last.req.token) =>
                last.resp.body = RegisterResponseOf(i).body.user

====
